---------------------------- MODULE Spec2Model ----------------------------
(***************************************************************************)
(* mlib (src/main.rs): a single-threaded terminal media browser.           *)
(*                                                                         *)
(* One step of the model is one iteration of the event loop of main():     *)
(* the key handler input(), then the refresh update(), then draw().        *)
(* Strings are sequences of ASCII codes, so that starts_with, ends_with,   *)
(* replace, to_lowercase and the byte-wise ordering of Rust strings are    *)
(* computed and not assumed.  An absolute path is the sequence of its      *)
(* components ("/" is the empty sequence).                                 *)
(***************************************************************************)
EXTENDS Integers, Sequences, FiniteSets, TLC

VARIABLES
    selected,     \* State.selected (i32)
    path,         \* State.path
    entries,      \* State.entries
    show_hidden,  \* State.show_hidden
    show_help,    \* State.show_help
    history,      \* Data.history
    disk,         \* content of <data_dir>/data.json, or NoFile
    unreadable,   \* the directories on which fs::read_dir currently fails
    term,         \* terminal modes: raw mode, alternate screen, hidden cursor
    pc,           \* "running", or how the process ended: "quit", "error"
                  \* (input() returned Err), "draw_error", "panic"
    moved,        \* the MoveUp/MoveDown of the last loop iteration, and the
                  \* selected it started from
    refreshed,    \* outcome of update() in the last loop iteration that
                  \* polled an event: "ok",
                  \* "failed", "none" (not run), or "stale" once the file
                  \* system has changed since
    spawn,        \* outcome of the player launch in the last loop iteration
    launched,     \* the file arguments of the players started in the last
                  \* loop iteration, one per process
    histOp,       \* the history operation of the last loop iteration
    snap,         \* entries/show_hidden before each of the last consecutive
                  \* ToggleHidden commands (at most two), no fs change between
    polled,       \* what event::poll gave the last loop iteration: "event"
                  \* or "timeout"; "start" before the first iteration
    drew          \* whether the last loop iteration (or, at "start", main
                  \* before the loop) ran draw() to its end

vars == <<selected, path, entries, show_hidden, show_help, history, disk,
          unreadable, term, pc, moved, refreshed, spawn, launched, histOp,
          snap, polled, drew>>

-----------------------------------------------------------------------------
(* Bounds *)

\* How far outside [0, max(len,1)) the unclamped selected may drift in a
\* directory that is empty or cannot be read (the i32 itself has 2^32 values).
MaxDrift == 2

\* terminal heights tried at each draw: 0 .. MaxTermRows, past max_size
MaxTermRows == 22

\* terminal widths tried at each draw: 0 .. MaxTermCols, past max_size
MaxTermCols == 401

-----------------------------------------------------------------------------
(* Strings *)

\* char::to_lowercase on ASCII
ToLowerChar(c) == IF c >= 65 /\ c <= 90 THEN c + 32 ELSE c

\* String::to_lowercase
to_lowercase(s) == [i \in 1..Len(s) |-> ToLowerChar(s[i])]

\* str::starts_with
starts_with(s, pre) ==
    Len(pre) <= Len(s) /\ SubSeq(s, 1, Len(pre)) = pre

\* str::ends_with
ends_with(s, suf) ==
    Len(suf) <= Len(s) /\ SubSeq(s, Len(s) - Len(suf) + 1, Len(s)) = suf

\* str::replace(pat, ""): every non-overlapping match, left to right, removed
RECURSIVE ReplaceFrom(_, _, _)
ReplaceFrom(s, pat, i) ==
    IF i > Len(s) THEN <<>>
    ELSE IF Len(pat) > 0 /\ i + Len(pat) - 1 <= Len(s)
            /\ SubSeq(s, i, i + Len(pat) - 1) = pat
         THEN ReplaceFrom(s, pat, i + Len(pat))
         ELSE <<s[i]>> \o ReplaceFrom(s, pat, i + 1)

replace(s, pat) == ReplaceFrom(s, pat, 1)

\* Ord for String: byte-wise lexicographic; the result is "lt", "eq" or "gt"
RECURSIVE CmpFrom(_, _, _)
CmpFrom(a, b, i) ==
    IF i > Len(a) /\ i > Len(b) THEN "eq"
    ELSE IF i > Len(a) THEN "lt"
    ELSE IF i > Len(b) THEN "gt"
    ELSE IF a[i] < b[i] THEN "lt"
    ELSE IF a[i] > b[i] THEN "gt"
    ELSE CmpFrom(a, b, i + 1)

cmp(a, b) == CmpFrom(a, b, 1)

-----------------------------------------------------------------------------
(* Names used by the file system of the model *)

Dot    == <<46>>                                   \* "."
SysVol == <<83,121,115,116,101,109, 32, 86,111,108,117,109,101, 32,
            73,110,102,111,114,109,97,116,105,111,110>>
                                                   \* "System Volume Information"
N_p      == <<112>>                                \* "p"
N_m      == <<109>>                                \* "m"
N_A      == <<65>>                                 \* "A"
N_P      == <<80>>                                 \* "P"
N_a      == <<97,46,77,75,86>>                     \* "a.MKV"
N_hidden == <<46,104>>                             \* ".h"
N_b      == <<98,46,109,107,118>>                  \* "b.mkv"
N_b2     == <<98,45,50,46,109,107,118>>            \* "b-2.mkv"

\* Config.filetypes: the default list
filetypes == << <<46,109,112,52>>,        \* ".mp4"
                <<46,109,107,118>>,       \* ".mkv"
                <<46,97,118,105>>,        \* ".avi"
                <<46,109,52,118>>,        \* ".m4v"
                <<46,119,101,98,109>>,    \* ".webm"
                <<46,109,111,118>> >>     \* ".mov"

\* Config.media_dir: "/p/m"
media_dir == <<N_p, N_m>>


-----------------------------------------------------------------------------
(* The file system the program runs against *)

Root == <<>>

\* The directories that exist and can be listed; "/P" and
\* "/p/m/System Volume Information" are directories nobody may read
Dirs == { Root, <<N_p>>, media_dir, media_dir \o <<N_A>>,
          media_dir \o <<N_hidden>> }

\* The directories whose permissions the environment may change
Lockable == { <<N_p>> }

\* The children of a directory, in the order fs::read_dir yields them
Child(n, f) == [name |-> n, is_file |-> f]

Children(d) ==
    IF d = Root THEN << Child(N_p, FALSE), Child(N_a, TRUE), Child(N_P, FALSE) >>
    ELSE IF d = <<N_p>> THEN << Child(N_m, FALSE) >>
    ELSE IF d = media_dir THEN
        << Child(N_b, TRUE), Child(N_A, FALSE), Child(N_hidden, FALSE),
           Child(SysVol, FALSE), Child(N_b2, TRUE) >>
    ELSE <<>>

\* fs::read_dir(p).is_ok()
read_dir_ok(p, locked) == p \in Dirs /\ p \notin locked

\* Path::parent().unwrap_or("/"): the parent of the root is None
parent(p) == IF Len(p) = 0 THEN Root ELSE SubSeq(p, 1, Len(p) - 1)

-----------------------------------------------------------------------------
(* History store *)

\* data.json: absent, holding a history set, or truncated by a failed write
NoFile  == [state |-> "absent", content |-> {}]
Torn    == [state |-> "torn", content |-> {}]
File(h) == [state |-> "ok", content |-> h]

\* A history key is a PathBuf: relative (rel) or absolute
AbsKey(p) == [rel |-> FALSE, comps |-> p]
RelKey(p) == [rel |-> TRUE, comps |-> p]

\* Path::strip_prefix(base): Some(rest) when base is a prefix of p
is_under(p, base) ==
    Len(base) <= Len(p) /\ SubSeq(p, 1, Len(base)) = base

\* e.path.strip_prefix(&config.media_dir).unwrap_or(&e.path)
strip_prefix_or(p) ==
    IF is_under(p, media_dir)
    THEN RelKey(SubSeq(p, Len(media_dir) + 1, Len(p)))
    ELSE AbsKey(p)

hist_contains(h, e) == strip_prefix_or(e.path) \in h

\* serde's Serialize for PathBuf: the path as a string, components joined
\* by "/" (code 47), an absolute path starting with "/"
RECURSIVE JoinComps(_, _)
JoinComps(comps, k) ==
    IF k = 0 THEN <<>>
    ELSE IF k = 1 THEN comps[1]
    ELSE JoinComps(comps, k - 1) \o <<47>> \o comps[k]

key_to_string(k) ==
    IF k.rel THEN JoinComps(k.comps, Len(k.comps))
    ELSE <<47>> \o JoinComps(k.comps, Len(k.comps))

\* Path::components of a string: the pieces between the "/"
RECURSIVE SplitFrom(_, _, _)
SplitFrom(str, i, cur) ==
    IF i > Len(str) THEN (IF cur = <<>> THEN <<>> ELSE <<cur>>)
    ELSE IF str[i] = 47
         THEN (IF cur = <<>> THEN <<>> ELSE <<cur>>) \o SplitFrom(str, i + 1, <<>>)
         ELSE SplitFrom(str, i + 1, Append(cur, str[i]))

\* serde's Deserialize for PathBuf: PathBuf::from(string)
string_to_key(str) ==
    IF Len(str) > 0 /\ str[1] = 47
    THEN AbsKey(SplitFrom(str, 2, <<>>))
    ELSE RelKey(SplitFrom(str, 1, <<>>))

\* serde_json::to_string_pretty(data): the "history" array, in no fixed order
to_json(h) == { key_to_string(k) : k \in h }

\* serde_json::from_str: the history set a data.json content loads as
from_json(c) == { string_to_key(str) : str \in c }

\* data.history.insert(..)
hist_insert(h, e) == h \cup { strip_prefix_or(e.path) }

\* a removal that forgets to normalise the key
hist_delete_verbatim(h, e) == h \ { AbsKey(e.path) }

\* data.history.remove(..)
hist_delete(h, e) == h \ { strip_prefix_or(e.path) }

\* a rewrite that is skipped
persist_skipped(h, d, wr) == [disk |-> d, err |-> FALSE]

\* the rewrite of data.json that follows an insert or a remove; wr is what
\* the file system does with it: "ok", "denied" (exists/create fails) or
\* "torn" (the file is truncated and the write fails)
persist(h, d, wr) ==
    IF d = NoFile THEN [disk |-> d, err |-> FALSE]
    ELSE IF wr = "ok" THEN [disk |-> File(to_json(h)), err |-> FALSE]
    ELSE IF wr = "denied" THEN [disk |-> d, err |-> TRUE]
    ELSE [disk |-> Torn, err |-> TRUE]

hist_add(h, d, e, wr) ==
    LET h2 == hist_insert(h, e)
        w  == persist(h2, d, wr)
    IN  [history |-> h2, disk |-> w.disk, err |-> w.err]

hist_remove(h, d, e, wr) ==
    LET h2 == hist_delete(h, e)
        w  == persist(h2, d, wr)
    IN  [history |-> h2, disk |-> w.disk, err |-> w.err]

-----------------------------------------------------------------------------
(* update(): the refresh *)

\* the filter of line 164
visible_dirs_filtered(e, sh) ==
    sh \/ ( ~starts_with(e.name, Dot) /\ e.name # SysVol
            /\ \E i \in 1..Len(filetypes) : ends_with(e.name, filetypes[i]) )

visible(e, sh) ==
    sh \/ ( ~starts_with(e.name, Dot) /\ e.name # SysVol
            /\ ( ~e.is_file
                 \/ \E i \in 1..Len(filetypes) : ends_with(e.name, filetypes[i]) ) )

\* the loop of lines 156-167 over the first k children of directory p
RECURSIVE Collect(_, _, _, _)
Collect(p, h, sh, k) ==
    IF k = 0 THEN <<>>
    ELSE LET d  == Children(p)[k]
             e0 == [path |-> p \o <<d.name>>, name |-> d.name,
                    is_file |-> d.is_file, is_watched |-> FALSE]
             e  == [e0 EXCEPT !.is_watched = hist_contains(h, e0)]
             before == Collect(p, h, sh, k - 1)
         IN  IF visible(e, sh) THEN Append(before, e) ELSE before

\* the comparator of line 168, a <= b, without the lowercasing
sort_leq_raw(a, b) == cmp(a.name, b.name) # "gt"

\* the comparator of line 168: a <= b
sort_leq(a, b) == cmp(to_lowercase(a.name), to_lowercase(b.name)) # "gt"

\* Vec::sort_by is stable: e goes behind every element that is not greater
RECURSIVE InsertSorted(_, _)
InsertSorted(s, e) ==
    IF s = <<>> THEN <<e>>
    ELSE IF sort_leq(s[Len(s)], e) THEN Append(s, e)
    ELSE Append(InsertSorted(SubSeq(s, 1, Len(s) - 1), e), s[Len(s)])

RECURSIVE SortPrefix(_, _)
SortPrefix(s, k) ==
    IF k = 0 THEN <<>> ELSE InsertSorted(SortPrefix(s, k - 1), s[k])

sort_by(s) == SortPrefix(s, Len(s))

\* a clamp that stops at the ends of the list instead of wrapping
clamp_saturate(sel, n) ==
    IF n > 0
    THEN (IF sel < 0 THEN 0 ELSE IF sel >= n THEN n - 1 ELSE sel)
    ELSE sel

\* the clamp with the truncating remainder (%) in place of rem_euclid
clamp_rem(sel, n) ==
    IF sel < 0 \/ sel >= n
    THEN IF n > 0
         THEN (IF sel < 0 THEN 0 - ((0 - sel) % n) ELSE sel % n)
         ELSE sel
    ELSE sel

\* lines 169-173: i32::rem_euclid is the non-negative remainder
clamp(sel, n) ==
    IF sel < 0 \/ sel >= n
    THEN IF n > 0 THEN sel % n ELSE sel
    ELSE sel

\* update(state, data, config): the new entries and selected, and whether
\* the directory could be read
update(sel, p, ents, sh, h, locked) ==
    IF ~read_dir_ok(p, locked)
    THEN [entries |-> ents, selected |-> sel, ok |-> FALSE]
    ELSE LET es == sort_by(Collect(p, h, sh, Len(Children(p))))
         IN  [entries |-> es, selected |-> clamp(sel, Len(es)), ok |-> TRUE]

-----------------------------------------------------------------------------
(* draw(): the name shown for an entry, lines 197-202 *)

RECURSIVE StripAll(_, _)
StripAll(name, k) ==
    IF k = 0 THEN name ELSE replace(StripAll(name, k - 1), filetypes[k])

display_name(name, sh) == IF sh THEN name ELSE StripAll(name, Len(filetypes))

\* min_size and max_size, lines 179-180, as (columns, rows)
min_size == <<0, 0>>
max_size == <<400, 20>>

min(a, b) == IF a <= b THEN a ELSE b
max(a, b) == IF a >= b THEN a ELSE b

\* the size draw() works with: the terminal's, clamped (line 182)
size(cols, rows) ==
    << max(min(cols, max_size[1]), min_size[1]),
       max(min(rows, max_size[2]), min_size[2]) >>

\* max_len, line 203; W is size.0
max_len(W, help) == W - (IF help THEN 46 ELSE 6)

\* text.chars().take(n)
take(text, n) == SubSeq(text, 1, min(n, Len(text)))

\* "..."
Ellipsis == <<46, 46, 46>>

\* draw_text, lines 265-282: the strings it prints at (x, y), none or one
draw_text(x, y, text, length) ==
    IF x < 0 \/ y < 0 THEN <<>>
    ELSE IF length > 0
         THEN IF length > 3 /\ Len(text) > length
              THEN << take(text, length - 3) \o Ellipsis >>
              ELSE << take(text, length) >>
         ELSE << text >>

\* the text of an entry, lines 197-202 and 209-216: a directory gets a "/"
entry_text(e, sh) ==
    IF e.is_file THEN display_name(e.name, sh)
    ELSE display_name(e.name, sh) \o <<47>>

\* an offset that pins the selection one row lower
offset_late(sel, H) == IF sel >= H - 2 THEN H - sel - 1 ELSE 1

\* offset, lines 190-193; H is size.1
offset(sel, H) == IF sel >= H - 2 THEN H - sel - 2 ELSE 1

\* the entries draw() puts on screen, lines 195-205 and 219: <<i, y>> for the
\* i-th entry (from 0) of n, drawn on row y
rows_drawn(sel, n, H) ==
    { <<i, i + offset(sel, H)>> : i \in { j \in 0..(n - 1) :
          j + offset(sel, H) > 0 /\ j + offset(sel, H) < H - 1 } }

-----------------------------------------------------------------------------
(* input(): the key handler.  Each operator gives the fields input() leaves *)
(* behind and how it ended: "none" (Ok), "quit" (process::exit(0)),         *)
(* "error" (an Err returned through ?) or "panic".                          *)

NoOp == [op |-> "none", path |-> <<>>]

\* the state input() starts from
Same == [selected |-> selected, path |-> path, show_hidden |-> show_hidden,
         show_help |-> show_help, history |-> history, disk |-> disk,
         term |-> term, spawn |-> "none", launched |-> <<>>,
         histOp |-> NoOp, exit |-> "none"]

Restored == [raw |-> FALSE, alt |-> FALSE, hidden |-> FALSE]

\* quit(), lines 327-332; out is whether writing to stdout works
quit(out) ==
    IF out THEN [Same EXCEPT !.term = Restored, !.exit = "quit"]
    ELSE [Same EXCEPT !.exit = "error"]

\* 'w' / Up, line 108
move_up == [Same EXCEPT !.selected = selected - 1]

\* 's' / Down, line 109
move_down == [Same EXCEPT !.selected = selected + 1]

\* entries[selected as usize] is inside the Vec
in_bounds(sel, ents) == sel >= 0 /\ sel < Len(ents)

\* a 'd' that does not try to read the directory first
enter_unchecked ==
    IF Len(entries) > 0
    THEN IF ~in_bounds(selected, entries) THEN [Same EXCEPT !.exit = "panic"]
         ELSE IF ~entries[selected + 1].is_file
              THEN [Same EXCEPT !.path = entries[selected + 1].path,
                                !.selected = 0]
              ELSE Same
    ELSE Same

\* 'd' / Right, lines 110-118
enter ==
    IF Len(entries) > 0
    THEN IF ~in_bounds(selected, entries) THEN [Same EXCEPT !.exit = "panic"]
         ELSE IF ~entries[selected + 1].is_file
                 /\ read_dir_ok(entries[selected + 1].path, unreadable)
              THEN [Same EXCEPT !.path = entries[selected + 1].path,
                                !.selected = 0]
              ELSE Same
    ELSE Same

\* an 'a' that keeps the selection
leave_keep_selected == [Same EXCEPT !.path = parent(path)]

\* 'a' / Left, lines 119-122
leave == [Same EXCEPT !.path = parent(path), !.selected = 0]

\* a launch that is handed the name as it is displayed
player_arg_displayed(e) ==
    SubSeq(e.path, 1, Len(e.path) - 1) \o <<display_name(e.name, FALSE)>>

\* .arg(&state.entries[state.selected as usize].path), line 126
player_arg(e) == e.path

\* 'e' / Enter, lines 123-132; launch is what starting the player does:
\* "ok", "nolog" (a log file cannot be created) or "nospawn"
activate(launch, wr) ==
    IF Len(entries) > 0 /\ selected < Len(entries)
    THEN IF ~in_bounds(selected, entries) THEN [Same EXCEPT !.exit = "panic"]
         ELSE IF entries[selected + 1].is_file
              THEN IF launch # "ok"
                   THEN [Same EXCEPT !.spawn = "failed", !.exit = "error"]
                   ELSE LET e == entries[selected + 1]
                            r == hist_add(history, disk, e, wr)
                        IN  [Same EXCEPT !.spawn = "ok",
                                         !.launched = <<player_arg(e)>>,
                                         !.history = r.history,
                                         !.disk = r.disk,
                                         !.histOp = [op |-> "add", path |-> e.path],
                                         !.exit = IF r.err THEN "error" ELSE "none"]
              ELSE Same
    ELSE Same

\* an 'f' that marks the file watched whether or not it already is
toggle_watched_add_only(wr) ==
    IF Len(entries) > 0 /\ selected < Len(entries)
    THEN IF ~in_bounds(selected, entries) THEN [Same EXCEPT !.exit = "panic"]
         ELSE IF entries[selected + 1].is_file
              THEN LET e == entries[selected + 1]
                       r == hist_add(history, disk, e, wr)
                   IN  [Same EXCEPT !.history = r.history,
                                    !.disk = r.disk,
                                    !.histOp = [op |-> "add", path |-> e.path],
                                    !.exit = IF r.err THEN "error" ELSE "none"]
              ELSE Same
    ELSE Same

\* 'f', lines 133-141
toggle_watched(wr) ==
    IF Len(entries) > 0 /\ selected < Len(entries)
    THEN IF ~in_bounds(selected, entries) THEN [Same EXCEPT !.exit = "panic"]
         ELSE IF entries[selected + 1].is_file
              THEN LET e == entries[selected + 1]
                       r == IF hist_contains(history, e)
                            THEN hist_remove(history, disk, e, wr)
                            ELSE hist_add(history, disk, e, wr)
                       o == IF hist_contains(history, e) THEN "remove" ELSE "add"
                   IN  [Same EXCEPT !.history = r.history,
                                    !.disk = r.disk,
                                    !.histOp = [op |-> o, path |-> e.path],
                                    !.exit = IF r.err THEN "error" ELSE "none"]
              ELSE Same
    ELSE Same

\* a 'g' that switches the filter off and never on again
toggle_hidden_set == [Same EXCEPT !.show_hidden = TRUE]

\* 'g', line 142
toggle_hidden == [Same EXCEPT !.show_hidden = ~show_hidden]

\* 'h', line 143
toggle_help == [Same EXCEPT !.show_help = ~show_help]

-----------------------------------------------------------------------------
(* main(): one iteration of the event loop, lines 88-102 *)

\* distance of sel from the range [0, max(n,1))
OutBy(sel, n) ==
    IF sel < 0 THEN 0 - sel
    ELSE IF sel >= n /\ sel > 0 THEN sel - (IF n > 0 THEN n - 1 ELSE 0)
    ELSE 0

\* fresh: the list was made by a refresh of the file system as it is now
Snapshot == [entries |-> entries, show_hidden |-> show_hidden,
             fresh |-> refreshed # "stale"]

NoMove == [dir |-> "none", from |-> 0]

\* input() ended as r0; when it returned Ok, update() and draw() follow
\* (draw() returns Ok, or an Err when the terminal fails it).  When the process ends, State and
\* Data end with it: what remains is the terminal, data.json and how the
\* launch went.
Iterate(cmd, r0) ==
    /\ pc = "running"
    /\ \E r \in {r0} :
         \E drawn \in (IF r.exit = "none" THEN BOOLEAN ELSE {FALSE}) :
         IF ~drawn
         THEN /\ pc' = IF r.exit # "none" THEN r.exit ELSE "draw_error"
              /\ term' = r.term
              /\ disk' = r.disk
              /\ spawn' = r.spawn
              /\ launched' = r.launched
              /\ selected' = 0
              /\ path' = Root
              /\ entries' = <<>>
              /\ show_hidden' = FALSE
              /\ show_help' = FALSE
              /\ history' = {}
              /\ refreshed' = "none"
              /\ histOp' = NoOp
              /\ moved' = NoMove
              /\ snap' = <<>>
              /\ polled' = "event"
              /\ drew' = FALSE
         ELSE \E u \in { update(r.selected, r.path, entries, r.show_hidden,
                                r.history, unreadable) } :
              /\ OutBy(u.selected, Len(u.entries)) <= MaxDrift
              /\ selected' = u.selected
              /\ entries' = u.entries
              /\ refreshed' = IF u.ok THEN "ok" ELSE "failed"
              /\ path' = r.path
              /\ show_hidden' = r.show_hidden
              /\ show_help' = r.show_help
              /\ history' = r.history
              /\ disk' = r.disk
              /\ term' = r.term
              /\ pc' = "running"
              /\ spawn' = r.spawn
              /\ launched' = r.launched
              /\ histOp' = r.histOp
              /\ moved' = IF cmd = "MoveUp"
                          THEN [dir |-> "up", from |-> selected]
                          ELSE IF cmd = "MoveDown"
                          THEN [dir |-> "down", from |-> selected]
                          ELSE NoMove
              /\ snap' = IF cmd # "ToggleHidden" THEN <<>>
                         ELSE IF Len(snap) < 2 THEN Append(snap, Snapshot)
                         ELSE <<snap[2], Snapshot>>
              /\ polled' = "event"
              /\ drew' = TRUE
    /\ UNCHANGED unreadable

Outcomes == {"ok", "denied", "torn"}
Launches == {"ok", "nolog", "nospawn"}

Quit          == \E out \in BOOLEAN : Iterate("Quit", quit(out))
MoveUp        == Iterate("MoveUp", move_up)
MoveDown      == Iterate("MoveDown", move_down)
Enter         == Iterate("Enter", enter)
Leave         == Iterate("Leave", leave)
Activate      == \E l \in Launches, wr \in Outcomes :
                     Iterate("Activate", activate(l, wr))
ToggleWatched == \E wr \in Outcomes :
                     Iterate("ToggleWatched", toggle_watched(wr))
ToggleHidden  == Iterate("ToggleHidden", toggle_hidden)
ToggleHelp    == Iterate("ToggleHelp", toggle_help)
\* any other key, and the events that are not keys (lines 92-96, 144)
OtherEvent    == Iterate("Other", Same)

\* the environment changes the permissions of a directory
ChangeFs ==
    /\ pc = "running"
    /\ \E d \in Lockable :
         unreadable' = IF d \in unreadable THEN unreadable \ {d}
                       ELSE unreadable \cup {d}
    /\ snap' = <<>>
    /\ refreshed' = "stale"
    /\ UNCHANGED <<selected, path, entries, show_hidden, show_help, history,
                   disk, term, pc, moved, spawn, launched, histOp, polled,
                   drew>>

\* main() up to the loop: lines 56-86 with the terminal taken over and the
\* first update() and draw() done; data.json was loaded or created (empty),
\* or could not be created
Init ==
    /\ path = media_dir
    /\ show_hidden = FALSE
    /\ show_help = FALSE
    /\ unreadable = {}
    /\ history = {}
    /\ disk \in { File(to_json({})), NoFile }
    /\ \E u \in { update(0, media_dir, <<>>, FALSE, {}, {}) } :
         entries = u.entries /\ selected = u.selected
    /\ term = [raw |-> TRUE, alt |-> TRUE, hidden |-> TRUE]
    /\ pc = "running"
    /\ moved = NoMove
    /\ refreshed = "ok"
    /\ spawn = "none"
    /\ launched = <<>>
    /\ histOp = NoOp
    /\ snap = <<>>
    /\ polled = "start"
    /\ drew = TRUE

Next ==
    \/ MoveUp
    \/ MoveDown
    \/ Enter
    \/ Leave
    \/ Activate
    \/ ToggleWatched
    \/ ToggleHidden
    \/ ToggleHelp
    \/ OtherEvent
    \/ Quit
    \/ ChangeFs

Spec == Init /\ [][Next]_vars

\* an iteration that redraws although event::poll timed out
IdleRedraw ==
    /\ pc = "running"
    /\ polled' = "timeout"
    /\ drew' = TRUE
    /\ moved' = NoMove /\ spawn' = "none" /\ launched' = <<>> /\ histOp' = NoOp
    /\ UNCHANGED <<selected, path, entries, show_hidden, show_help, history,
                   disk, unreadable, term, pc, refreshed, snap>>

\* an iteration in which event::poll times out (line 89, Ok(false)): the body
\* of the if is skipped, so input(), update() and draw() are not run
Idle ==
    /\ pc = "running"
    /\ polled' = "timeout"
    /\ drew' = FALSE
    /\ moved' = NoMove /\ spawn' = "none" /\ launched' = <<>> /\ histOp' = NoOp
    /\ UNCHANGED <<selected, path, entries, show_hidden, show_help, history,
                   disk, unreadable, term, pc, refreshed, snap>>

\* event::poll or event::read returns Err (lines 89-90): main returns it
PollError == Iterate("PollError", [Same EXCEPT !.exit = "error"])

\* the loop with every outcome of event::poll
LoopNext ==
    \/ Next
    \/ Idle
    \/ PollError

LoopSpec == Init /\ [][LoopNext]_vars

-----------------------------------------------------------------------------
(* Properties *)

NumEntries == Len(entries)

\* C1: after a MoveUp or MoveDown whose refresh read the current directory
\* and found N > 0 visible entries, selected is in [0, N).
C1_ClampInRange ==
    (moved.dir # "none" /\ refreshed = "ok" /\ NumEntries > 0)
        => (selected >= 0 /\ selected < NumEntries)

\* MoveDown on the last of several entries was clamped back to the first
C1_Witness ==
    /\ moved.dir = "down" /\ refreshed = "ok" /\ NumEntries >= 2
    /\ moved.from = NumEntries - 1 /\ selected = 0

\* C2: after a command and its refresh, an empty entry list has selected = 0.
C2_EmptyListSelectsZero ==
    (refreshed = "ok" /\ NumEntries = 0) => selected = 0

\* C3: in a list of N > 0 entries MoveUp at 0 gives N-1, MoveDown at N-1
\* gives 0, and every other move changes selected by exactly one.
C3_Wraparound ==
    (refreshed = "ok" /\ NumEntries > 0
       /\ moved.from >= 0 /\ moved.from < NumEntries)
     => /\ moved.dir = "up" =>
              selected = (IF moved.from = 0 THEN NumEntries - 1
                          ELSE moved.from - 1)
        /\ moved.dir = "down" =>
              selected = (IF moved.from = NumEntries - 1 THEN 0
                          ELSE moved.from + 1)

\* MoveUp on the first of several entries wrapped to the last
C3_Witness ==
    /\ moved.dir = "up" /\ refreshed = "ok" /\ NumEntries >= 2
    /\ moved.from = 0 /\ selected = NumEntries - 1

\* C4: when Activate cannot start the player, the event loop keeps running.
C4_SpawnFailureNotFatal ==
    spawn = "failed" => pc = "running"

\* C5: whenever the process has ended, the terminal has been restored
\* (raw mode off, alternate screen left, cursor shown).
C5_TerminalRestoredOnExit ==
    pc # "running" => term = Restored

\* C6: a refresh of a directory that cannot be read leaves the entry list
\* empty.
C6_FailedRefreshClears ==
    refreshed = "failed" => entries = <<>>

\* C7: after a successful refresh the entries are in non-decreasing order of
\* their display name (suffixes stripped unless show_hidden), compared
\* case-insensitively.
C7_SortedByDisplayName ==
    refreshed = "ok" =>
        \A i \in 1..(NumEntries - 1) :
            cmp(to_lowercase(display_name(entries[i].name, show_hidden)),
                to_lowercase(display_name(entries[i + 1].name, show_hidden)))
              # "gt"

\* the children of the current directory that the claim C8 says are listed
C8_Expected ==
    LET cs == Children(path)
        all == { cs[i] : i \in 1..Len(cs) }
        suffixed(n) == \E i \in 1..Len(filetypes) :
            /\ Len(n) >= Len(filetypes[i])
            /\ \A j \in 1..Len(filetypes[i]) :
                 n[Len(n) - Len(filetypes[i]) + j] = filetypes[i][j]
    IN  IF show_hidden THEN all
        ELSE { c \in all : /\ c.name[1] # 46
                           /\ c.name # SysVol
                           /\ (c.is_file => suffixed(c.name)) }

\* C8: after a successful refresh the entry list holds exactly the children
\* that pass the visibility filter (all of them when show_hidden), each once.
C8_VisibilityFilter ==
    refreshed = "ok" =>
        /\ { Child(entries[i].name, entries[i].is_file) : i \in 1..NumEntries }
             = C8_Expected
        /\ NumEntries = Cardinality(C8_Expected)

\* at "/" the filter has dropped the file "a.MKV", whose suffix matches only
\* when case is ignored, and kept both directories
C8_Witness ==
    /\ refreshed = "ok" /\ ~show_hidden /\ path = Root
    /\ NumEntries = 2 /\ Len(Children(path)) = 3

\* C9: two ToggleHidden in a row, the file system unchanged since the list
\* was made, restore show_hidden and the entry sequence.
C9_ToggleTwiceRestores ==
    (Len(snap) = 2 /\ snap[1].fresh)
        => (entries = snap[1].entries /\ show_hidden = snap[1].show_hidden)

\* two toggles in a readable directory whose list the filter changes
C9_Witness ==
    /\ Len(snap) = 2 /\ snap[1].fresh /\ refreshed = "ok"
    /\ snap[2].entries # snap[1].entries
    /\ entries = snap[1].entries

\* C10: after hist_add(p) hist_contains(p) is true and after hist_remove(p)
\* it is false, in memory.
C10_HistoryRoundTrip ==
    /\ histOp.op = "add" => hist_contains(history, [path |-> histOp.path])
    /\ histOp.op = "remove" => ~hist_contains(history, [path |-> histOp.path])

\* a file under media_dir was removed from the history
C10_Witness ==
    /\ histOp.op = "remove" /\ is_under(histOp.path, media_dir)
    /\ ~hist_contains(history, [path |-> histOp.path])

\* C11: while the program runs and data.json exists, loading data.json
\* gives the in-memory history set (after every add and remove).
C11_DiskMatchesHistory ==
    (pc = "running" /\ disk.state = "ok") => from_json(disk.content) = history

\* a removal has been written: the file holds the one key that is left,
\* a file outside media_dir
C11_Witness ==
    /\ pc = "running" /\ disk.state = "ok" /\ histOp.op = "remove"
    /\ history = { AbsKey(<<N_a>>) }
    /\ from_json(disk.content) = history

\* What every step of Activate and of ToggleWatched that leaves the loop
\* running has in common: the navigation state is as before.  Stated first
\* in the formulas below, it spares the evaluation of the action on the
\* steps of the other commands.
StaysPut ==
    /\ pc' = "running" /\ path' = path
    /\ show_hidden' = show_hidden /\ show_help' = show_help
    /\ moved' = NoMove /\ snap' = <<>>

\* C12: an Activate after which the loop goes on has, on a file, started
\* one player with the entry's path (its last component the full name) and
\* left the file's key in the history, which is otherwise as before; on
\* anything else it has started no player and left the history alone.
C12_Activate ==
    [][ (StaysPut /\ Activate) =>
          IF in_bounds(selected, entries) /\ entries[selected + 1].is_file
          THEN LET e == entries[selected + 1]
                   k == IF is_under(e.path, media_dir)
                        THEN RelKey(SubSeq(e.path, Len(media_dir) + 1, Len(e.path)))
                        ELSE AbsKey(e.path)
               IN  /\ spawn' = "ok"
                   /\ launched' = <<e.path>>
                   /\ e.path[Len(e.path)] = e.name
                   /\ k \in history'
                   /\ history' = history \cup {k}
          ELSE /\ spawn' = "none"
               /\ launched' = <<>>
               /\ history' = history ]_vars

\* b.mkv was played from media_dir: the player got the path with the
\* extension, and the key is in the history
C12_Witness ==
    /\ pc = "running" /\ spawn = "ok"
    /\ launched = << media_dir \o <<N_b>> >>
    /\ display_name(N_b, FALSE) # N_b
    /\ RelKey(<<N_b>>) \in history

\* C13: a ToggleWatched after which the loop goes on has, on a file,
\* flipped the membership of that file's key and of no other key (so a
\* second one right after, on the same file, undoes the first); on a
\* directory or an empty list it has left the history alone.
C13_ToggleWatched ==
    [][ (StaysPut /\ ToggleWatched) =>
          IF in_bounds(selected, entries) /\ entries[selected + 1].is_file
          THEN LET e == entries[selected + 1]
                   k == IF is_under(e.path, media_dir)
                        THEN RelKey(SubSeq(e.path, Len(media_dir) + 1, Len(e.path)))
                        ELSE AbsKey(e.path)
               IN  /\ (k \in history') <=> (k \notin history)
                   /\ history' \ {k} = history \ {k}
                   /\ (spawn = "none" /\ histOp.path = e.path) =>
                         /\ histOp.op = "add" => k \notin history'
                         /\ histOp.op = "remove" => k \in history'
          ELSE history' = history ]_vars

\* b.mkv was toggled back to unwatched while b-2.mkv stayed watched
C13_Witness ==
    /\ pc = "running" /\ spawn = "none"
    /\ histOp = [op |-> "remove", path |-> media_dir \o <<N_b>>]
    /\ history = { RelKey(<<N_b2>>) }

\* C14: Enter on a selected entry raises no error; on a directory that can
\* be read it sets path to the entry's path and selected to 0; on a file or
\* a directory that cannot be read it leaves path as it is, and selected
\* and entries too (they are what the refresh of the unchanged file system
\* gives again).
C14_Enter ==
    [][ (moved' = NoMove /\ snap' = <<>> /\ in_bounds(selected, entries)
           /\ Enter) =>
          LET e == entries[selected + 1]
          IN  /\ pc' \in {"running", "draw_error"}
              /\ pc' = "running" =>
                   IF ~e.is_file /\ e.path \in Dirs /\ e.path \notin unreadable
                   THEN path' = e.path /\ selected' = 0
                   ELSE /\ path' = path
                        /\ refreshed # "stale" =>
                             (selected' = selected /\ entries' = entries) ]_vars

\* the empty directory A of media_dir has been entered
C14_Witness ==
    /\ pc = "running" /\ refreshed = "ok"
    /\ path = media_dir \o <<N_A>> /\ selected = 0 /\ entries = <<>>
    /\ moved = NoMove

\* C16: a Leave after which the loop goes on has set selected to 0 and path
\* to its parent: one component shorter, and "/" again at "/".
C16_Leave ==
    [][ (pc' = "running" /\ moved' = NoMove /\ snap' = <<>> /\ Leave) =>
          /\ selected' = 0
          /\ IF path = <<>> THEN path' = <<>>
             ELSE /\ Len(path') = Len(path) - 1
                  /\ \A i \in 1..Len(path') : path'[i] = path[i] ]_vars

\* "/" has been reached from media_dir, and the list is that of "/"
C16_Witness ==
    /\ pc = "running" /\ refreshed = "ok"
    /\ path = <<>> /\ selected = 0 /\ NumEntries = 2
    /\ moved = NoMove /\ snap = <<>>

\* C17: Enter, Activate and ToggleWatched never index the entry list with a
\* selected outside 0 .. len-1, so the process never ends in a panic.
C17_IndexSafe == pc # "panic"

\* every entry's flag is its membership in history
FlagsMatchHistory ==
    \A i \in 1..Len(entries) :
        entries[i].is_watched = hist_contains(history, entries[i])

\* C20: at every draw that follows a command and its refresh, each entry's
\* is_watched equals the membership of its key in history.
C20_WatchedFlagCurrent ==
    (pc = "running" /\ refreshed \in {"ok", "failed"}) => FlagsMatchHistory

\* the flags do match after every refresh that read the directory
C20_FreshFlagsMatch ==
    (pc = "running" /\ refreshed = "ok") => FlagsMatchHistory

\* C18: for every terminal height, no entry is drawn on row 0 or on row H-1
\* of the effective height H; and when H >= 3 and selected is inside a
\* non-empty list, the selected entry is drawn, on row selected + 1 when
\* selected < H - 2 and on row H - 2 otherwise.
C18_ScrollVisible ==
    pc = "running" =>
      \A rows \in 0..MaxTermRows :
          LET H == size(0, rows)[2]
              D == rows_drawn(selected, Len(entries), H)
          IN  /\ \A d \in D : d[2] >= 1 /\ d[2] <= H - 2
              /\ (H >= 3 /\ in_bounds(selected, entries)) =>
                    /\ selected < H - 2 => <<selected, selected + 1>> \in D
                    /\ selected >= H - 2 => <<selected, H - 2>> \in D
                    /\ \A d \in D : d[1] = selected =>
                          d[2] = IF selected < H - 2 THEN selected + 1 ELSE H - 2

\* in a terminal of 4 rows the third entry is selected and pinned to row 2,
\* the first entry having scrolled out
C18_Witness ==
    /\ pc = "running" /\ selected = 2 /\ NumEntries >= 3
    /\ rows_drawn(selected, NumEntries, size(0, 4)[2])
          = { <<1, 1>>, <<2, 2>> }

\* C19: for every terminal width, with W the effective width and B the
\* budget (W - 6, or W - 46 with the help panel open), the text printed for
\* an entry on row 1 has at most B characters, and ends in "..." when the
\* entry's text is longer than B.
C19_NameWithinBudget ==
    pc = "running" =>
      \A cols \in 0..MaxTermCols :
          LET W == size(cols, 0)[1]
              B == max_len(W, show_help)
          IN  \A i \in 1..Len(entries) :
                LET text == entry_text(entries[i], show_hidden)
                    out  == draw_text(4, 1, text, B)
                IN  /\ Len(out) = 1
                    /\ Len(out[1]) <= B
                    /\ Len(text) > B =>
                          /\ Len(out[1]) >= 3
                          /\ SubSeq(out[1], Len(out[1]) - 2, Len(out[1])) = Ellipsis

=============================================================================
